---------------------------- MODULE Spec2Model ----------------------------
(* wallapop-rss: the expiring cache of item dates (main.py, class Cache)   *)
(* called from concurrently served requests, the signed upstream GET and   *)
(* the feed resolution of rss_view.                                         *)
EXTENDS Integers, Sequences, FiniteSets, TLC

(***************************************************************************)
(* Bounds of the model                                                     *)
(***************************************************************************)
\* number of expiration periods the clock may run through
MaxPeriods == 1
\* Cache.get calls the threads issue directly, all together
MaxCalls == 3
\* rss_view requests served, all together
MaxResolves == 2
\* elements of query['keywords']
MaxKeywords == 2
\* items of one search result
MaxResultLen == 2
\* objects the searches deliver, all rss_view requests together
MaxObjects == 3
\* get calls, all threads together
MaxRequests == 2

\* threads of app.run(threaded=True)
Threads == {"t1", "t2"}
\* item ids, the keys of item_date_cache
Keys == {"a", "b"}
\* content.modified_date values (epoch milliseconds) the upstream may answer
ModifiedDates == {1000, 2999}
\* HTTP statuses the upstream may answer
Statuses == {200, 500}
\* threads that serve rss_view requests
FeedThreads == {"t1"}

NoThread == "none"
NoValue == -1

(***************************************************************************)
(* Program constants                                                       *)
(***************************************************************************)
\* item_date_cache = Cache(get_date, 12 * 3600)
expiration == 12 * 3600

\* the instants (epoch seconds, relative to the start) int(time.time()) is
\* observed at: the start, the expiration, and the second after each multiple
\* of the expiration; the clock jumps between them by arbitrary amounts
Instants == {0, expiration} \cup {j * expiration + 1 : j \in 1..MaxPeriods}

VARIABLES
    now,            \* int(time.time())
    dict,           \* Cache.dict: key -> <<value, timestamp>>
    lock,           \* Cache.lock (RLock): [owner, count]
    pc,             \* per thread: position in the code
    key,            \* per thread: argument of the running Cache.get
    max_timestamp,  \* per thread: local of Cache.clean (0 once get is left)
    ret,            \* per thread: what the last Cache.get returned
    calls,          \* direct Cache.get calls issued so far
    failed,         \* history: keys whose last lookup ended in a loader exception
    swept,          \* history, per thread: keys its last sweep deleted
    how,            \* history, per thread: "hit" or "miss" of its last lookup
    called_at,      \* history, per thread: the clock when it called the running get
    keywords_left,  \* per thread: iterations of "for keyword in keywords" to come
    location,       \* per thread: rss_view's location
    result,         \* per thread: items of result['search_objects'] to come
    item_ids,       \* per thread: rss_view's item_ids
    rss_items,      \* per thread: rss_view's rss_items
    feed,           \* per thread: the feed rss_view returned
    error,          \* history, per thread: the call of this rss_view that raised
    first,          \* history, per thread: for each item id the searches of
                    \* this rss_view have delivered, the title of its first object
    delivered,      \* history, per thread: objects the searches of this rss_view
                    \* have delivered
    resolves,       \* rss_view requests served so far
    get_pc,         \* per thread: position in get(url, params)
    op,             \* per thread: the operation that called get
    url,            \* per thread: get's url
    timestamp,      \* per thread: get's timestamp
    request,        \* per thread: what get handed to requests.get: the url, the
                    \* Timestamp header and the message X-Signature signs
    response,       \* history, per thread: what requests.get answered
    outcome,        \* per thread: what get returned or that it raised
    requests,       \* get calls issued so far
    query,          \* per thread: rss_view's query
    lookups,        \* history, per thread: get_location calls of this rss_view
    searches,       \* history, per thread: the parameters of each search call
                    \* of this rss_view
    gets,           \* history, per thread: the item ids this rss_view has called
                    \* item_date_cache.get for
    objects,        \* objects the searches have delivered so far
    survivors       \* history: when a failed date load has ended an rss_view,
                    \* the cache entries of the items it had processed, until
                    \* the following rss_view is over

VARIABLES
    \* signature.py: where the call of get_signature stands ("idle", "message",
    \* "hmac", "b64encode", "returned") and who called it ("get", "test")
    sig_pc, caller,
    \* the arguments url, method and timestamp of the call
    args,
    \* the locals msg (line 15) and sig (line 17) and the value returned
    msg, sig, signature,
    \* the lines test() has printed
    printed,
    \* the arguments and the result of the call before this one
    previous

feedvars == <<keywords_left, location, result, item_ids, rss_items, feed, error, first,
              delivered, resolves>>

getvars == <<get_pc, op, url, timestamp, request, response, outcome, requests>>

histvars == <<query, lookups, searches, gets, objects, survivors>>

sigvars == <<sig_pc, caller, args, msg, sig, signature, printed, previous>>

\* the state of main.py
mainvars == <<now, dict, lock, pc, key, max_timestamp, ret, calls, failed, swept,
              how, called_at, feedvars, getvars, histvars>>

vars == <<mainvars, sigvars>>

(***************************************************************************)
(* Strings: a str is the sequence of its characters                        *)
(***************************************************************************)
\* the printable ASCII characters, from code 32 (space) to code 126; the grave
\* accent (code 96) occurs in no string of the program and is left empty
Ascii ==
    <<" ", "!", "\"", "#", "$", "%", "&", "'", "(", ")", "*", "+", ",", "-",
      ".", "/", "0", "1", "2", "3", "4", "5", "6", "7", "8", "9", ":", ";",
      "<", "=", ">", "?", "@", "A", "B", "C", "D", "E", "F", "G", "H", "I",
      "J", "K", "L", "M", "N", "O", "P", "Q", "R", "S", "T", "U", "V", "W",
      "X", "Y", "Z", "[", "\\", "]", "^", "_", "", "a", "b", "c", "d", "e",
      "f", "g", "h", "i", "j", "k", "l", "m", "n", "o", "p", "q", "r", "s",
      "t", "u", "v", "w", "x", "y", "z", "{", "|", "}", "~">>

\* ord(c)
Ord(c) == 31 + CHOOSE i \in DOMAIN Ascii : Ascii[i] = c

\* chr(n)
Chr(n) == Ascii[n - 31]

\* str.upper()
Upper(s) ==
    [i \in DOMAIN s |-> IF Ord(s[i]) >= Ord("a") /\ Ord(s[i]) <= Ord("z")
                        THEN Chr(Ord(s[i]) - 32)
                        ELSE s[i]]

\* s starts with t
StartsWith(s, t) == Len(s) >= Len(t) /\ SubSeq(s, 1, Len(t)) = t

\* s[n:]
From(s, n) == SubSeq(s, n + 1, Len(s))

RECURSIVE Replace(_, _, _)
\* str.replace(old, new), old not empty: every occurrence, from the left
Replace(s, old, new) ==
    IF s = <<>> THEN <<>>
    ELSE IF StartsWith(s, old) THEN new \o Replace(From(s, Len(old)), old, new)
    ELSE <<Head(s)>> \o Replace(Tail(s), old, new)

\* the decimal digits
Digits == <<"0", "1", "2", "3", "4", "5", "6", "7", "8", "9">>

RECURSIVE Str(_)
\* str(n) of an int n >= 0
Str(n) == IF n < 10 THEN <<Digits[n + 1]>>
          ELSE Str(n \div 10) \o <<Digits[(n % 10) + 1]>>

\* URL = 'https://es.wallapop.com'
URL ==
    <<"h", "t", "t", "p", "s", ":", "/", "/", "e", "s", ".", "w", "a", "l",
      "l", "a", "p", "o", "p", ".", "c", "o", "m">>

\* URLAPIV3 = 'https://api.wallapop.com/api/v3'
URLAPIV3 ==
    <<"h", "t", "t", "p", "s", ":", "/", "/", "a", "p", "i", ".", "w", "a",
      "l", "l", "a", "p", "o", "p", ".", "c", "o", "m", "/", "a", "p", "i",
      "/", "v", "3">>

\* the literal 'https://api.wallapop.com' of get_signature
ApiOrigin ==
    <<"h", "t", "t", "p", "s", ":", "/", "/", "a", "p", "i", ".", "w", "a",
      "l", "l", "a", "p", "o", "p", ".", "c", "o", "m">>

\* the upstream operations and the url each passes to get: get_location
\* f'{URL}/maps/here/place', search f'{URLAPIV3}/general/search', get_date
\* f'{URLAPIV3}/items/{item_id}'
Operations == {[name |-> "get_location", item_id |-> <<>>],
               [name |-> "search", item_id |-> <<>>]}
              \cup {[name |-> "get_date", item_id |-> <<i>>] : i \in Keys}

UrlOf(o) ==
    IF o.name = "get_location" THEN URL \o
        <<"/", "m", "a", "p", "s", "/", "h", "e", "r", "e", "/", "p", "l",
          "a", "c", "e">>
    ELSE IF o.name = "search" THEN URLAPIV3 \o
        <<"/", "g", "e", "n", "e", "r", "a", "l", "/", "s", "e", "a", "r",
          "c", "h">>
    ELSE URLAPIV3 \o
        <<"/", "i", "t", "e", "m", "s", "/">>
         \o o.item_id

(***************************************************************************)
(* signature.py                                                            *)
(***************************************************************************)
\* get_timestamp(): str(int(time.time()) * 1000)
get_timestamp(t) == Str(t * 1000)

\* the message with the method as it was given
Message_AsGiven(u, method, ts) ==
    method \o <<"|">> \o Replace(u, ApiOrigin, <<>>) \o <<"|">> \o ts \o <<"|">>

\* get_signature: req = url.replace('https://api.wallapop.com', '');
\* msg = f'{method.upper()}|{req}|{timestamp}|'
Message(u, method, ts) ==
    Upper(method) \o <<"|">> \o Replace(u, ApiOrigin, <<>>) \o <<"|">> \o ts \o <<"|">>

\* KEY = 'Tm93IHRoYXQgeW91J3ZlIGZvdW5kIHRoaXMs...b3AuY29t=='
KEY ==
    <<"T", "m", "9", "3", "I", "H", "R", "o", "Y", "X", "Q", "g", "e", "W",
      "9", "1", "J", "3", "Z", "l", "I", "G", "Z", "v", "d", "W", "5", "k",
      "I", "H", "R", "o", "a", "X", "M", "s", "I", "G", "F", "y", "Z", "S",
      "B", "5", "b", "3", "U", "g", "c", "m", "V", "h", "Z", "H", "k", "g",
      "d", "G", "8", "g", "a", "m", "9", "p", "b", "i", "B", "1", "c", "z",
      "8", "g", "a", "m", "9", "i", "c", "0", "B", "3", "Y", "W", "x", "s",
      "Y", "X", "B", "v", "c", "C", "5", "j", "b", "2", "0", "=", "=">>

\* str.encode('utf-8') of a str of ASCII characters: its bytes
encode(s) == [i \in DOMAIN s |-> Ord(s[i])]

(***************************************************************************)
(* hashlib.sha256 (FIPS 180-4). A 32-bit word is the pair <<high, low>> of *)
(* its 16-bit halves                                                       *)
(***************************************************************************)
\* the powers of two up to 2^16
Pow2 == <<1, 2, 4, 8, 16, 32, 64, 128, 256, 512, 1024, 2048, 4096, 8192, 16384,
          32768, 65536>>

RECURSIVE AndBits(_, _)
\* bitwise and of two naturals, bit by bit
AndBits(x, y) == IF x = 0 \/ y = 0 THEN 0
                 ELSE (x % 2) * (y % 2) + 2 * AndBits(x \div 2, y \div 2)

\* the bitwise and of two 4-bit numbers, tabulated
AndTable == [x \in 0..15 |-> [y \in 0..15 |-> AndBits(x, y)]]

\* bitwise and and exclusive or of two 16-bit numbers
And(x, y) ==
    AndTable[x % 16][y % 16]
    + 16 * AndTable[(x \div 16) % 16][(y \div 16) % 16]
    + 256 * AndTable[(x \div 256) % 16][(y \div 256) % 16]
    + 4096 * AndTable[x \div 4096][y \div 4096]
Xor(x, y) == x + y - 2 * And(x, y)

WAnd(a, b) == <<And(a[1], b[1]), And(a[2], b[2])>>
WXor(a, b) == <<Xor(a[1], b[1]), Xor(a[2], b[2])>>
WNot(a) == <<Pow2[17] - 1 - a[1], Pow2[17] - 1 - a[2]>>

\* addition modulo 2^32
WAdd(a, b) ==
    LET low == a[2] + b[2]
    IN  <<(a[1] + b[1] + (low \div Pow2[17])) % Pow2[17], low % Pow2[17]>>

RECURSIVE RotR(_, _)
\* rotation and shift to the right by n bits, 0 <= n < 32
RotR(a, n) ==
    IF n >= 16 THEN RotR(<<a[2], a[1]>>, n - 16)
    ELSE <<(a[1] \div Pow2[n + 1]) + (a[2] % Pow2[n + 1]) * Pow2[17 - n],
           (a[2] \div Pow2[n + 1]) + (a[1] % Pow2[n + 1]) * Pow2[17 - n]>>
ShR(a, n) ==
    IF n >= 16 THEN <<0, a[1] \div Pow2[n - 15]>>
    ELSE <<a[1] \div Pow2[n + 1],
           (a[2] \div Pow2[n + 1]) + (a[1] % Pow2[n + 1]) * Pow2[17 - n]>>

Ch(x, y, z) == WXor(WAnd(x, y), WAnd(WNot(x), z))
Maj(x, y, z) == WXor(WXor(WAnd(x, y), WAnd(x, z)), WAnd(y, z))
BigSigma0(x) == WXor(WXor(RotR(x, 2), RotR(x, 13)), RotR(x, 22))
BigSigma1(x) == WXor(WXor(RotR(x, 6), RotR(x, 11)), RotR(x, 25))
SmallSigma0(x) == WXor(WXor(RotR(x, 7), RotR(x, 18)), ShR(x, 3))
SmallSigma1(x) == WXor(WXor(RotR(x, 17), RotR(x, 19)), ShR(x, 10))

\* the round constants and the initial hash value
RoundConstants ==
    <<<<17034, 12184>>, <<28983, 17553>>, <<46528, 64463>>, <<59829, 56229>>,
      <<14678, 49755>>, <<23025, 4593>>, <<37439, 33444>>, <<43804, 24277>>,
      <<55303, 43672>>, <<4739, 23297>>, <<9265, 34238>>, <<21772, 32195>>,
      <<29374, 23924>>, <<32990, 45566>>, <<39900, 1703>>, <<49563, 61812>>,
      <<58523, 27073>>, <<61374, 18310>>, <<4033, 40390>>, <<9228, 41420>>,
      <<11753, 11375>>, <<19060, 33962>>, <<23728, 43484>>, <<30457, 35034>>,
      <<38974, 20818>>, <<43057, 50797>>, <<45059, 10184>>, <<48985, 32711>>,
      <<50912, 3059>>, <<54695, 37191>>, <<1738, 25425>>, <<5161, 10599>>,
      <<10167, 2693>>, <<11803, 8504>>, <<19756, 28156>>, <<21304, 3347>>,
      <<25866, 29524>>, <<30314, 2747>>, <<33218, 51502>>, <<37490, 11397>>,
      <<41663, 59553>>, <<43034, 26187>>, <<49739, 35696>>, <<51052, 20899>>,
      <<53650, 59417>>, <<54937, 1572>>, <<62478, 13701>>, <<4202, 41072>>,
      <<6564, 49430>>, <<7735, 27656>>, <<10056, 30540>>, <<13488, 48309>>,
      <<14620, 3251>>, <<20184, 43594>>, <<23452, 51791>>, <<26670, 28659>>,
      <<29839, 33518>>, <<30885, 25455>>, <<33992, 30740>>, <<36039, 520>>,
      <<37054, 65530>>, <<42064, 27883>>, <<48889, 41975>>, <<50801, 30962>>>>

InitialHash ==
    <<<<27145, 58983>>, <<47975, 44677>>, <<15470, 62322>>, <<42319, 62778>>,
      <<20750, 21119>>, <<39685, 26764>>, <<8067, 55723>>, <<23520, 52505>>>>

RECURSIVE Schedule(_)
\* the message schedule of a block of 16 words
Schedule(w) ==
    IF Len(w) = 64 THEN w
    ELSE LET t == Len(w) + 1
         IN  Schedule(Append(w, WAdd(WAdd(SmallSigma1(w[t - 2]), w[t - 7]),
                                     WAdd(SmallSigma0(w[t - 15]), w[t - 16]))))

\* one round, with constant k and schedule word x, on the working variables
\* s = <<a, b, c, d, e, f, g, h>>
Round(s, k, x) ==
    LET T1 == WAdd(WAdd(WAdd(s[8], BigSigma1(s[5])), Ch(s[5], s[6], s[7])), WAdd(k, x))
        T2 == WAdd(BigSigma0(s[1]), Maj(s[1], s[2], s[3]))
    IN  <<WAdd(T1, T2), s[1], s[2], s[3], WAdd(s[4], T1), s[5], s[6], s[7]>>

RECURSIVE Rounds(_, _)
\* the working variables after each of the 64 rounds, q[1] being the start
Rounds(q, w) ==
    IF Len(q) = 65 THEN q
    ELSE Rounds(Append(q, Round(q[Len(q)], RoundConstants[Len(q)], w[Len(q)])), w)

\* the hash value after the block of 16 words w
Compress(h, w) ==
    LET s == Rounds(<<h>>, Schedule(w))[65] IN [i \in 1..8 |-> WAdd(h[i], s[i])]

\* the message with its padding: 0x80, zeros, and the length in bits as 64 bits
Pad(m) ==
    LET bits == 8 * Len(m)
    IN  m \o <<128>> \o [i \in 1..((55 - Len(m)) % 64) |-> 0]
          \o <<0, 0, 0, 0, (bits \div (Pow2[17] * 256)) % 256,
               (bits \div Pow2[17]) % 256, (bits \div 256) % 256, bits % 256>>

\* the words of a sequence of bytes, big-endian
Words(b) ==
    [i \in 1..(Len(b) \div 4) |->
        <<b[4 * i - 3] * 256 + b[4 * i - 2], b[4 * i - 1] * 256 + b[4 * i]>>]

RECURSIVE Blocks(_, _)
Blocks(h, w) ==
    IF w = <<>> THEN h
    ELSE Blocks(Compress(h, SubSeq(w, 1, 16)), SubSeq(w, 17, Len(w)))

\* hashlib.sha256(m).digest()
sha256(m) ==
    LET h == Blocks(InitialHash, Words(Pad(m)))
    IN  [i \in 1..32 |->
            LET half == h[((i - 1) \div 4) + 1][(((i - 1) % 4) \div 2) + 1]
            IN  IF i % 2 = 1 THEN half \div 256 ELSE half % 256]

\* hmac.new(key, msg, hashlib.sha256).digest() (RFC 2104): a key longer than
\* the block of 64 bytes is hashed first
hmac_digest(k, m) ==
    LET k0 == IF Len(k) > 64 THEN sha256(k) ELSE k
        block == [i \in 1..64 |-> IF i <= Len(k0) THEN k0[i] ELSE 0]
        ipad == [i \in 1..64 |-> Xor(block[i], 54)]
        opad == [i \in 1..64 |-> Xor(block[i], 92)]
    IN  sha256(opad \o sha256(ipad \o m))

\* the base64 alphabet
Base64Alphabet ==
    <<"A", "B", "C", "D", "E", "F", "G", "H", "I", "J", "K", "L", "M", "N",
      "O", "P", "Q", "R", "S", "T", "U", "V", "W", "X", "Y", "Z", "a", "b",
      "c", "d", "e", "f", "g", "h", "i", "j", "k", "l", "m", "n", "o", "p",
      "q", "r", "s", "t", "u", "v", "w", "x", "y", "z", "0", "1", "2", "3",
      "4", "5", "6", "7", "8", "9", "+", "/">>

RECURSIVE b64encode(_)
\* base64.b64encode(b).decode('ascii')
b64encode(b) ==
    LET c(n) == Base64Alphabet[n + 1]
    IN  IF b = <<>> THEN <<>>
        ELSE IF Len(b) = 1
        THEN <<c(b[1] \div 4), c((b[1] % 4) * 16), "=", "=">>
        ELSE IF Len(b) = 2
        THEN <<c(b[1] \div 4), c((b[1] % 4) * 16 + (b[2] \div 16)),
               c((b[2] % 16) * 4), "=">>
        ELSE <<c(b[1] \div 4), c((b[1] % 4) * 16 + (b[2] \div 16)),
               c((b[2] % 16) * 4 + (b[3] \div 64)), c(b[3] % 64)>>
             \o b64encode(SubSeq(b, 4, Len(b)))

\* get_signature(url, method, timestamp)
get_signature(u, method, ts) ==
    b64encode(hmac_digest(encode(KEY), encode(Message(u, method, ts))))

(***************************************************************************)
(* The upstream: requests.get and the JSON it answers                      *)
(***************************************************************************)
\* a JSON object is a function from its field names; the item detail carries
\* content.modified_date, an error document carries neither
ItemBodies == {[f \in {"content"} |-> m] : m \in ModifiedDates} \cup {<<>>}

ItemResponses ==
    {[kind |-> "neterr", status |-> 0, body |-> <<>>]}
    \cup {[kind |-> "malformed", status |-> s, body |-> <<>>] : s \in Statuses}
    \cup {[kind |-> "json", status |-> s, body |-> b] : s \in Statuses, b \in ItemBodies}

\* the place document carries latitude and longitude
LocationBodies == {[f \in {"latitude", "longitude"} |-> IF f = "latitude" THEN 41 ELSE 2]}
                  \cup {<<>>}

LocationResponses ==
    {[kind |-> "neterr", status |-> 0, body |-> <<>>]}
    \cup {[kind |-> "malformed", status |-> s, body |-> <<>>] : s \in Statuses}
    \cup {[kind |-> "json", status |-> s, body |-> b] : s \in Statuses, b \in LocationBodies}

\* an item of search_objects: its id and the rest of its fields (title,
\* price, description, ...). Every object the upstream delivers during one
\* rss_view carries a title of its own, the number of the object, so that two
\* occurrences of one id can be told apart
Item(i, n) == [id |-> i, title |-> n]

RECURSIVE SeqsUpTo(_, _)
\* the sequences over S of length at most n
SeqsUpTo(S, n) ==
    IF n = 0 THEN {<<>>}
    ELSE LET shorter == SeqsUpTo(S, n - 1)
         IN  shorter \cup {Append(q, x) : q \in shorter, x \in S}

\* the search document carries search_objects
SearchBodies == {[f \in {"search_objects"} |-> q] : q \in SeqsUpTo(Keys, MaxResultLen)}
                \cup {<<>>}

\* the objects of a search result whose ids are ids, numbered from n + 1 on
Objects(ids, n) == [j \in 1..Len(ids) |-> Item(ids[j], n + j)]

SearchResponses ==
    {[kind |-> "neterr", status |-> 0, body |-> <<>>]}
    \cup {[kind |-> "malformed", status |-> s, body |-> <<>>] : s \in Statuses}
    \cup {[kind |-> "json", status |-> s, body |-> b] : s \in Statuses, b \in SearchBodies}

\* no feed returned (yet)
NoFeed == [returned |-> FALSE, items |-> <<>>, lastBuildDate |-> NoValue]

Raise == [raised |-> TRUE, value |-> NoValue]
Return(v) == [raised |-> FALSE, value |-> v]

\* get(url, params): requests.get raises on a network failure, r.json()
\* raises on a body that is no JSON; the status is never looked at
get(resp) ==
    IF resp.kind = "neterr" THEN Raise
    ELSE IF resp.kind = "malformed" THEN Raise
    ELSE Return(resp.body)

\* get_location(place_id)
get_location(resp) == get(resp)

\* search(keywords, location, ...): str(location['latitude']) and
\* str(location['longitude']) are evaluated before the request is sent
search(loc, resp) ==
    IF {"latitude", "longitude"} \subseteq DOMAIN loc THEN get(resp) ELSE Raise

\* a query of queries.json with n keywords
Query(n) == [keywords |-> [i \in 1..n |-> i], location_name |-> "place",
             location_radius |-> 10, min_price |-> 5, max_price |-> 50]

\* the parameters search(keywords, location, location_radius, min_price,
\* max_price) sends
SearchParams(keywords, loc, location_radius, min_price, max_price) ==
    [distance |-> Str(location_radius * 1000),
     keywords |-> keywords,
     filters_source |-> "quick_filters",
     order_by |-> "newest",
     min_sale_price |-> min_price,
     max_sale_price |-> max_price,
     latitude |-> Str(loc["latitude"]),
     longitude |-> Str(loc["longitude"]),
     language |-> "es_ES"]

\* get_date(item_id): item['content']['modified_date'] // 1000
get_date(resp) ==
    LET item == get(resp) IN
    IF item.raised THEN Raise
    ELSE IF "content" \notin DOMAIN item.value THEN Raise
    ELSE Return(item.value["content"] \div 1000)

(***************************************************************************)
(* class Cache                                                             *)
(***************************************************************************)
EntryValue(e) == e[1]
EntryTimestamp(e) == e[2]

\* mutant: get and clean never wait for the lock
CanAcquire_Always(p) == TRUE

\* RLock.acquire succeeds when the lock is free or already owned by p
CanAcquire(p) == lock.owner = NoThread \/ lock.owner = p
Acquired(p) == [owner |-> p, count |-> lock.count + 1]
Released == IF lock.count = 1 THEN [owner |-> NoThread, count |-> 0]
            ELSE [owner |-> lock.owner, count |-> lock.count - 1]

\* mutant: the expiration is left out of the bound
MaxTimestamp_NoExpiration(t) == t

\* max_timestamp = int(time.time()) - self.expiration
MaxTimestamp(t) == t - expiration

\* mutant: entries live one second too long
Expired_OffByOne(e, m) == EntryTimestamp(e) < m - 1

\* v[1] < max_timestamp
Expired(e, m) == EntryTimestamp(e) < m

\* mutant: one expired entry empties the whole dictionary
CleanDict_AllOrNothing(d, m) ==
    IF \E j \in DOMAIN d : Expired(d[j], m) THEN <<>> ELSE d

\* for key in [k for k, v in self.dict.items() if v[1] < max_timestamp]: del
CleanDict(d, m) == [k \in {j \in DOMAIN d : ~Expired(d[j], m)} |-> d[k]]

\* self.dict[key] = (_value, timestamp)
Store(d, k, v, t) == [j \in DOMAIN d \cup {k} |-> IF j = k THEN <<v, t>> ELSE d[j]]

\* no rss_view is running
NoQuery == [keywords |-> <<>>, location_name |-> "", location_radius |-> 0,
            min_price |-> 0, max_price |-> 0]

\* nothing sent, nothing answered, nothing returned (yet)
NoRequest == [url |-> <<>>, Timestamp |-> <<>>, signed |-> <<>>]
NoResponse == [kind |-> "none", status |-> 0, body |-> <<>>]
\* no arguments, and no call of get_signature before this one
NoArgs == [url |-> <<>>, method |-> <<>>, timestamp |-> <<>>]
NoSignature == [args |-> NoArgs, signature |-> <<>>]
NoOutcome == [raised |-> FALSE, value |-> NoValue]

Init ==
    /\ now = 0
    /\ dict = <<>>
    /\ lock = [owner |-> NoThread, count |-> 0]
    /\ pc = [p \in Threads |-> "idle"]
    /\ key = [p \in Threads |-> "a"]
    /\ max_timestamp = [p \in Threads |-> 0]
    /\ ret = [p \in Threads |-> NoValue]
    /\ calls = 0
    /\ failed = {}
    /\ swept = [p \in Threads |-> {}]
    /\ how = [p \in Threads |-> "none"]
    /\ called_at = [p \in Threads |-> 0]
    /\ keywords_left = [p \in Threads |-> 0]
    /\ location = [p \in Threads |-> <<>>]
    /\ result = [p \in Threads |-> <<>>]
    /\ item_ids = [p \in Threads |-> {}]
    /\ rss_items = [p \in Threads |-> <<>>]
    /\ feed = [p \in Threads |-> NoFeed]
    /\ error = [p \in Threads |-> "none"]
    /\ first = [p \in Threads |-> <<>>]
    /\ delivered = [p \in Threads |-> 0]
    /\ resolves = 0
    /\ get_pc = [p \in Threads |-> "idle"]
    /\ op = [p \in Threads |-> "none"]
    /\ url = [p \in Threads |-> <<>>]
    /\ timestamp = [p \in Threads |-> <<>>]
    /\ request = [p \in Threads |-> NoRequest]
    /\ response = [p \in Threads |-> NoResponse]
    /\ outcome = [p \in Threads |-> NoOutcome]
    /\ requests = 0
    /\ query = [p \in Threads |-> NoQuery]
    /\ lookups = [p \in Threads |-> 0]
    /\ searches = [p \in Threads |-> <<>>]
    /\ gets = [p \in Threads |-> <<>>]
    /\ objects = 0
    /\ survivors = <<>>
    /\ sig_pc = "idle"
    /\ caller = "none"
    /\ args = NoArgs
    /\ msg = <<>>
    /\ sig = <<>>
    /\ signature = <<>>
    /\ printed = <<>>
    /\ previous = NoSignature

\* the clock advances
Tick ==
    /\ \E t \in Instants : t > now /\ now' = t
    /\ UNCHANGED <<dict, lock, pc, key, max_timestamp, ret, calls, failed, swept, how,
                   called_at>>
    /\ UNCHANGED feedvars
    /\ UNCHANGED <<getvars, sigvars>>
    /\ UNCHANGED histvars

\* control enters Cache.get(k)
EnterGet(p, k) ==
    /\ key' = [key EXCEPT ![p] = k]
    /\ ret' = [ret EXCEPT ![p] = NoValue]
    /\ pc' = [pc EXCEPT ![p] = "clean"]
    /\ swept' = [swept EXCEPT ![p] = {}]
    /\ how' = [how EXCEPT ![p] = "none"]
    /\ called_at' = [called_at EXCEPT ![p] = now]
    /\ UNCHANGED <<now, dict, lock, max_timestamp, failed>>

\* a thread calls item_date_cache.get(k)
Call(p, k) ==
    /\ pc[p] \in {"idle", "get_returned", "get_raised"}
    /\ calls < MaxCalls
    /\ calls' = calls + 1
    /\ EnterGet(p, k)
    /\ UNCHANGED feedvars
    /\ UNCHANGED <<getvars, sigvars>>
    /\ UNCHANGED histvars

\* Cache.clean: lock.acquire(); max_timestamp = int(time.time()) - expiration
CleanAcquire(p) ==
    /\ pc[p] = "clean"
    /\ CanAcquire(p)
    /\ lock' = Acquired(p)
    /\ max_timestamp' = [max_timestamp EXCEPT ![p] = MaxTimestamp(now)]
    /\ pc' = [pc EXCEPT ![p] = "clean_sweep"]
    /\ UNCHANGED <<now, dict, key, ret, calls, failed, swept, how, called_at>>
    /\ UNCHANGED feedvars
    /\ UNCHANGED <<getvars, sigvars>>
    /\ UNCHANGED histvars

\* mutant: the sweep looks at the requested key only
CleanSweep_OnlyKey(p) ==
    /\ pc[p] = "clean_sweep"
    /\ dict' = [k \in {j \in DOMAIN dict :
                         j # key[p] \/ ~Expired(dict[j], max_timestamp[p])} |-> dict[k]]
    /\ swept' = [swept EXCEPT ![p] = DOMAIN dict \ DOMAIN dict']
    /\ lock' = Released
    /\ pc' = [pc EXCEPT ![p] = "get_lookup"]
    /\ UNCHANGED <<now, key, max_timestamp, ret, calls, failed, how, called_at>>
    /\ UNCHANGED feedvars
    /\ UNCHANGED <<getvars, sigvars>>
    /\ survivors' = [k \in DOMAIN survivors \cap DOMAIN dict' |-> survivors[k]]
    /\ UNCHANGED <<query, lookups, searches, gets, objects>>

\* Cache.clean: delete the expired entries; finally lock.release()
CleanSweep(p) ==
    /\ pc[p] = "clean_sweep"
    /\ dict' = CleanDict(dict, max_timestamp[p])
    /\ swept' = [swept EXCEPT ![p] = DOMAIN dict \ DOMAIN dict']
    /\ lock' = Released
    /\ pc' = [pc EXCEPT ![p] = "get_lookup"]
    /\ UNCHANGED <<now, key, max_timestamp, ret, calls, failed, how, called_at>>
    /\ UNCHANGED feedvars
    /\ UNCHANGED <<getvars, sigvars>>
    /\ survivors' = [k \in DOMAIN survivors \cap DOMAIN dict' |-> survivors[k]]
    /\ UNCHANGED <<query, lookups, searches, gets, objects>>

\* Cache.get: lock.acquire(); key in self.dict: value = self.dict[key];
\* lock.release(); return value[0]
GetHit(p) ==
    /\ pc[p] = "get_lookup"
    /\ CanAcquire(p)
    /\ key[p] \in DOMAIN dict
    /\ ret' = [ret EXCEPT ![p] = EntryValue(dict[key[p]])]
    /\ failed' = failed \ {key[p]}
    /\ pc' = [pc EXCEPT ![p] = "get_returned"]
    /\ how' = [how EXCEPT ![p] = "hit"]
    /\ max_timestamp' = [max_timestamp EXCEPT ![p] = 0]
    /\ called_at' = [called_at EXCEPT ![p] = 0]
    /\ UNCHANGED <<now, dict, lock, key, calls, swept>>
    /\ UNCHANGED feedvars
    /\ UNCHANGED <<getvars, sigvars>>
    /\ UNCHANGED histvars

\* Cache.get: lock.acquire(); key not in self.dict: self.updater(key) starts
GetMiss(p) ==
    /\ pc[p] = "get_lookup"
    /\ CanAcquire(p)
    /\ key[p] \notin DOMAIN dict
    /\ lock' = Acquired(p)
    /\ failed' = failed \ {key[p]}
    /\ pc' = [pc EXCEPT ![p] = "updater"]
    /\ how' = [how EXCEPT ![p] = "miss"]
    /\ UNCHANGED <<now, dict, key, max_timestamp, ret, calls, swept, called_at>>
    /\ UNCHANGED feedvars
    /\ UNCHANGED <<getvars, sigvars>>
    /\ UNCHANGED histvars

\* the updater returns: timestamp = int(time.time());
\* self.dict[key] = (_value, timestamp); lock.release(); return value[0]
UpdaterReturn(p, resp) ==
    /\ pc[p] = "updater"
    /\ ~get_date(resp).raised
    /\ dict' = Store(dict, key[p], get_date(resp).value, now)
    /\ ret' = [ret EXCEPT ![p] = EntryValue(dict'[key[p]])]
    /\ lock' = Released
    /\ pc' = [pc EXCEPT ![p] = "get_returned"]
    /\ max_timestamp' = [max_timestamp EXCEPT ![p] = 0]
    /\ called_at' = [called_at EXCEPT ![p] = 0]
    /\ UNCHANGED <<now, key, calls, failed, swept, how>>
    /\ UNCHANGED feedvars
    /\ UNCHANGED <<getvars, sigvars>>
    /\ UNCHANGED histvars

\* mutant: the exception leaves get without the finally clause
UpdaterRaise_NoRelease(p, resp) ==
    /\ pc[p] = "updater"
    /\ get_date(resp).raised
    /\ failed' = failed \cup {key[p]}
    /\ pc' = [pc EXCEPT ![p] = "get_raised"]
    /\ max_timestamp' = [max_timestamp EXCEPT ![p] = 0]
    /\ called_at' = [called_at EXCEPT ![p] = 0]
    /\ UNCHANGED <<now, dict, lock, key, ret, calls, swept, how>>
    /\ UNCHANGED feedvars
    /\ UNCHANGED <<getvars, sigvars>>
    /\ UNCHANGED histvars

\* mutant: a failed load is stored like a value
UpdaterRaise_Cached(p, resp) ==
    /\ pc[p] = "updater"
    /\ get_date(resp).raised
    /\ dict' = Store(dict, key[p], NoValue, now)
    /\ lock' = Released
    /\ failed' = failed \cup {key[p]}
    /\ pc' = [pc EXCEPT ![p] = "get_raised"]
    /\ max_timestamp' = [max_timestamp EXCEPT ![p] = 0]
    /\ called_at' = [called_at EXCEPT ![p] = 0]
    /\ UNCHANGED <<now, key, ret, calls, swept, how>>
    /\ UNCHANGED feedvars
    /\ UNCHANGED <<getvars, sigvars>>
    /\ UNCHANGED histvars

\* the updater raises: finally lock.release(); the exception leaves get
UpdaterRaise(p, resp) ==
    /\ pc[p] = "updater"
    /\ get_date(resp).raised
    /\ lock' = Released
    /\ failed' = failed \cup {key[p]}
    /\ pc' = [pc EXCEPT ![p] = "get_raised"]
    /\ max_timestamp' = [max_timestamp EXCEPT ![p] = 0]
    /\ called_at' = [called_at EXCEPT ![p] = 0]
    /\ UNCHANGED <<now, dict, key, ret, calls, swept, how>>
    /\ UNCHANGED feedvars
    /\ UNCHANGED <<getvars, sigvars>>
    /\ UNCHANGED histvars

\* one step of a running Cache.get
CacheStep(p) ==
    \/ CleanAcquire(p)
    \/ CleanSweep(p)
    \/ GetHit(p)
    \/ GetMiss(p)
    \/ \E resp \in ItemResponses : UpdaterReturn(p, resp)
    \/ \E resp \in ItemResponses : UpdaterRaise(p, resp)

(***************************************************************************)
(* rss_view                                                                *)
(***************************************************************************)
cachevars == <<dict, lock, key, max_timestamp, ret, failed, swept, how, called_at>>

\* control is back in rss_view: the frame of Cache.get is gone
LeaveGet(p) ==
    /\ key' = [key EXCEPT ![p] = "a"]
    /\ ret' = [ret EXCEPT ![p] = NoValue]
    /\ swept' = [swept EXCEPT ![p] = {}]
    /\ how' = [how EXCEPT ![p] = "none"]
    /\ UNCHANGED <<dict, lock, max_timestamp, failed, called_at>>

\* history: f extended by the ids that objs delivers for the first time
NoteFirst(f, objs) ==
    LET new == {objs[j].id : j \in DOMAIN objs} \ DOMAIN f
        at(i) == CHOOSE j \in DOMAIN objs :
                    /\ objs[j].id = i
                    /\ \A h \in DOMAIN objs : objs[h].id = i => j <= h
    IN  [i \in DOMAIN f \cup new |-> IF i \in DOMAIN f THEN f[i] ELSE objs[at(i)].title]

\* the locals of a finished rss_view are gone
Leave(p) ==
    /\ keywords_left' = [keywords_left EXCEPT ![p] = 0]
    /\ location' = [location EXCEPT ![p] = <<>>]
    /\ result' = [result EXCEPT ![p] = <<>>]
    /\ item_ids' = [item_ids EXCEPT ![p] = {}]
    /\ rss_items' = [rss_items EXCEPT ![p] = <<>>]
    /\ query' = [query EXCEPT ![p] = NoQuery]
    /\ lookups' = [lookups EXCEPT ![p] = 0]
    /\ searches' = [searches EXCEPT ![p] = <<>>]
    /\ gets' = [gets EXCEPT ![p] = <<>>]

\* an exception leaves rss_view: no feed is returned
Abort(p, what) ==
    /\ pc' = [pc EXCEPT ![p] = "raised"]
    /\ error' = [error EXCEPT ![p] = what]
    /\ Leave(p)
    /\ first' = [first EXCEPT ![p] = <<>>]
    /\ delivered' = [delivered EXCEPT ![p] = 0]
    /\ UNCHANGED <<feed, resolves>>

\* a request /rss/<id> arrives: query = queries[id], keywords of n elements
Start(p, n) ==
    /\ pc[p] \in {"idle", "done", "raised"}
    /\ resolves < MaxResolves
    /\ resolves' = resolves + 1
    /\ keywords_left' = [keywords_left EXCEPT ![p] = n]
    /\ location' = [location EXCEPT ![p] = <<>>]
    /\ result' = [result EXCEPT ![p] = <<>>]
    /\ item_ids' = [item_ids EXCEPT ![p] = {}]
    /\ rss_items' = [rss_items EXCEPT ![p] = <<>>]
    /\ feed' = [feed EXCEPT ![p] = NoFeed]
    /\ error' = [error EXCEPT ![p] = "none"]
    /\ first' = [first EXCEPT ![p] = <<>>]
    /\ delivered' = [delivered EXCEPT ![p] = 0]
    /\ pc' = [pc EXCEPT ![p] = "get_location"]
    /\ UNCHANGED <<now, calls, cachevars>>
    /\ UNCHANGED <<getvars, sigvars>>
    /\ query' = [query EXCEPT ![p] = Query(n)]
    /\ lookups' = [lookups EXCEPT ![p] = 0]
    /\ searches' = [searches EXCEPT ![p] = <<>>]
    /\ gets' = [gets EXCEPT ![p] = <<>>]
    /\ UNCHANGED <<objects, survivors>>

\* location = get_location(location_name)
GetLocation(p, resp) ==
    /\ pc[p] = "get_location"
    /\ IF get_location(resp).raised
       THEN Abort(p, "location") /\ survivors' = <<>> /\ UNCHANGED objects
       ELSE /\ location' = [location EXCEPT ![p] = get_location(resp).value]
            /\ lookups' = [lookups EXCEPT ![p] = @ + 1]
            /\ pc' = [pc EXCEPT ![p] = "loop"]
            /\ UNCHANGED <<query, searches, gets, objects, survivors>>
            /\ UNCHANGED <<keywords_left, result, item_ids, rss_items, feed, error,
                           first, delivered, resolves>>
    /\ UNCHANGED <<now, calls, cachevars>>
    /\ UNCHANGED <<getvars, sigvars>>

\* mutant: each search is given its own keyword only
Search_OwnKeyword(p, resp) ==
    /\ pc[p] = "loop"
    /\ keywords_left[p] > 0
    /\ "search_objects" \in DOMAIN resp.body
          => objects + Len(resp.body["search_objects"]) <= MaxObjects
    /\ IF search(location[p], resp).raised
          \/ "search_objects" \notin DOMAIN search(location[p], resp).value
       THEN Abort(p, "search") /\ survivors' = <<>> /\ UNCHANGED objects
       ELSE /\ result' = [result EXCEPT
                             ![p] = Objects(search(location[p], resp).value["search_objects"],
                                            delivered[p])]
            /\ delivered' = [delivered EXCEPT ![p] = @ + Len(result'[p])]
            /\ objects' = objects + Len(result'[p])
            /\ first' = [first EXCEPT ![p] = NoteFirst(@, result'[p])]
            /\ keywords_left' = [keywords_left EXCEPT ![p] = @ - 1]
            /\ searches' = [searches EXCEPT
                               ![p] = Append(@, SearchParams(<<query[p].keywords[Len(searches[p]) + 1]>>,
                                                             location[p],
                                                             query[p].location_radius,
                                                             query[p].min_price,
                                                             query[p].max_price))]
            /\ pc' = [pc EXCEPT ![p] = "items"]
            /\ UNCHANGED <<query, lookups, gets, survivors>>
            /\ UNCHANGED <<location, item_ids, rss_items, feed, error, resolves>>
    /\ UNCHANGED <<now, calls, cachevars>>
    /\ UNCHANGED <<getvars, sigvars>>

\* for keyword in keywords: result = search(keywords, location, ...);
\* result['search_objects']
Search(p, resp) ==
    /\ pc[p] = "loop"
    /\ keywords_left[p] > 0
    /\ "search_objects" \in DOMAIN resp.body
          => objects + Len(resp.body["search_objects"]) <= MaxObjects
    /\ IF search(location[p], resp).raised
          \/ "search_objects" \notin DOMAIN search(location[p], resp).value
       THEN Abort(p, "search") /\ survivors' = <<>> /\ UNCHANGED objects
       ELSE /\ result' = [result EXCEPT
                             ![p] = Objects(search(location[p], resp).value["search_objects"],
                                            delivered[p])]
            /\ delivered' = [delivered EXCEPT ![p] = @ + Len(result'[p])]
            /\ objects' = objects + Len(result'[p])
            /\ first' = [first EXCEPT ![p] = NoteFirst(@, result'[p])]
            /\ keywords_left' = [keywords_left EXCEPT ![p] = @ - 1]
            /\ searches' = [searches EXCEPT
                               ![p] = Append(@, SearchParams(query[p].keywords,
                                                             location[p],
                                                             query[p].location_radius,
                                                             query[p].min_price,
                                                             query[p].max_price))]
            /\ pc' = [pc EXCEPT ![p] = "items"]
            /\ UNCHANGED <<query, lookups, gets, survivors>>
            /\ UNCHANGED <<location, item_ids, rss_items, feed, error, resolves>>
    /\ UNCHANGED <<now, calls, cachevars>>
    /\ UNCHANGED <<getvars, sigvars>>

\* for item in result['search_objects']: the items of this result are through
EndOfResult(p) ==
    /\ pc[p] = "items"
    /\ result[p] = <<>>
    /\ pc' = [pc EXCEPT ![p] = "loop"]
    /\ UNCHANGED <<now, calls, cachevars, feedvars>>
    /\ UNCHANGED <<getvars, sigvars>>
    /\ UNCHANGED histvars

\* if item_id in item_ids: continue
SkipDuplicate(p) ==
    /\ pc[p] = "items"
    /\ result[p] # <<>>
    /\ Head(result[p]).id \in item_ids[p]
    /\ result' = [result EXCEPT ![p] = Tail(@)]
    /\ UNCHANGED <<now, calls, cachevars, pc>>
    /\ UNCHANGED <<keywords_left, location, item_ids, rss_items, feed, error, first,
                   delivered, resolves>>
    /\ UNCHANGED <<getvars, sigvars>>
    /\ UNCHANGED histvars

\* mutant: the date is looked up without the test of item_ids
LookupDate_Always(p) ==
    /\ pc[p] = "items"
    /\ result[p] # <<>>
    /\ EnterGet(p, Head(result[p]).id)
    /\ UNCHANGED <<calls, keywords_left, location, result, item_ids, rss_items, feed,
                   error, first, delivered, resolves>>
    /\ UNCHANGED <<getvars, sigvars>>
    /\ gets' = [gets EXCEPT ![p] = Append(@, Head(result[p]).id)]
    /\ UNCHANGED <<query, lookups, searches, objects, survivors>>

\* date = item_date_cache.get(item_id)
LookupDate(p) ==
    /\ pc[p] = "items"
    /\ result[p] # <<>>
    /\ Head(result[p]).id \notin item_ids[p]
    /\ EnterGet(p, Head(result[p]).id)
    /\ UNCHANGED <<calls, keywords_left, location, result, item_ids, rss_items, feed,
                   error, first, delivered, resolves>>
    /\ UNCHANGED <<getvars, sigvars>>
    /\ gets' = [gets EXCEPT ![p] = Append(@, Head(result[p]).id)]
    /\ UNCHANGED <<query, lookups, searches, objects, survivors>>

\* mutant: the id is never added to item_ids
AppendItem_NoAdd(p) ==
    /\ pc[p] = "get_returned"
    /\ rss_items' = [rss_items EXCEPT
                        ![p] = Append(@, [guid |-> Head(result[p]).id,
                                          title |-> Head(result[p]).title,
                                          pubDate |-> ret[p]])]
    /\ result' = [result EXCEPT ![p] = Tail(@)]
    /\ pc' = [pc EXCEPT ![p] = "items"]
    /\ LeaveGet(p)
    /\ UNCHANGED <<now, calls, keywords_left, location, item_ids, feed, error, first,
                   delivered, resolves>>
    /\ UNCHANGED <<getvars, sigvars>>
    /\ UNCHANGED histvars

\* rss_items.append(RSSItem(..., guid=Guid(str(item_id)), pubDate=date));
\* item_ids.add(item_id)
AppendItem(p) ==
    /\ pc[p] = "get_returned"
    /\ rss_items' = [rss_items EXCEPT
                        ![p] = Append(@, [guid |-> Head(result[p]).id,
                                          title |-> Head(result[p]).title,
                                          pubDate |-> ret[p]])]
    /\ item_ids' = [item_ids EXCEPT ![p] = @ \cup {Head(result[p]).id}]
    /\ result' = [result EXCEPT ![p] = Tail(@)]
    /\ pc' = [pc EXCEPT ![p] = "items"]
    /\ LeaveGet(p)
    /\ UNCHANGED <<now, calls, keywords_left, location, feed, error, first, delivered,
                   resolves>>
    /\ UNCHANGED <<getvars, sigvars>>
    /\ UNCHANGED histvars

\* mutant: an item whose date cannot be loaded is left out of the feed
PropagateDate_SkipItem(p) ==
    /\ pc[p] = "get_raised"
    /\ result' = [result EXCEPT ![p] = Tail(@)]
    /\ pc' = [pc EXCEPT ![p] = "items"]
    /\ LeaveGet(p)
    /\ UNCHANGED <<now, calls, keywords_left, location, item_ids, rss_items, feed, error,
                   first, delivered, resolves>>
    /\ UNCHANGED <<getvars, sigvars>>
    /\ UNCHANGED histvars

\* mutant: the entries stored for the items of the failed rss_view are taken
\* back out of the cache
PropagateDate_Rollback(p) ==
    /\ pc[p] = "get_raised"
    /\ Abort(p, "date")
    /\ dict' = [k \in DOMAIN dict \ item_ids[p] |-> dict[k]]
    /\ key' = [key EXCEPT ![p] = "a"]
    /\ ret' = [ret EXCEPT ![p] = NoValue]
    /\ swept' = [swept EXCEPT ![p] = {}]
    /\ how' = [how EXCEPT ![p] = "none"]
    /\ UNCHANGED <<lock, max_timestamp, failed, called_at>>
    /\ UNCHANGED <<now, calls>>
    /\ UNCHANGED <<getvars, sigvars>>
    /\ UNCHANGED objects
    /\ survivors' = [k \in item_ids[p] \cap DOMAIN dict |-> dict[k]]

\* the exception of item_date_cache.get leaves rss_view
PropagateDate(p) ==
    /\ pc[p] = "get_raised"
    /\ Abort(p, "date")
    /\ LeaveGet(p)
    /\ UNCHANGED <<now, calls>>
    /\ UNCHANGED <<getvars, sigvars>>
    /\ UNCHANGED objects
    /\ survivors' = [k \in item_ids[p] \cap DOMAIN dict |-> dict[k]]

\* mutant: the build date is the latest pubDate of the items
Finish_MostRecent(p) ==
    /\ pc[p] = "loop"
    /\ keywords_left[p] = 0
    /\ feed' = [feed EXCEPT
                   ![p] = [returned |-> TRUE,
                           items |-> rss_items[p],
                           lastBuildDate |-> IF Len(rss_items[p]) # 0
                                             THEN CHOOSE d \in {rss_items[p][i].pubDate :
                                                                  i \in DOMAIN rss_items[p]} :
                                                      \A i \in DOMAIN rss_items[p] :
                                                          rss_items[p][i].pubDate <= d
                                             ELSE now]]
    /\ pc' = [pc EXCEPT ![p] = "done"]
    /\ Leave(p)
    /\ delivered' = [delivered EXCEPT ![p] = 0]
    /\ UNCHANGED <<now, calls, cachevars, error, first, resolves>>
    /\ UNCHANGED <<getvars, sigvars>>
    /\ UNCHANGED objects
    /\ survivors' = <<>>

\* lastBuildDate = datetime.now(); if len(rss_items) != 0: lastBuildDate =
\* rss_items[0].pubDate; return the feed
Finish(p) ==
    /\ pc[p] = "loop"
    /\ keywords_left[p] = 0
    /\ feed' = [feed EXCEPT
                   ![p] = [returned |-> TRUE,
                           items |-> rss_items[p],
                           lastBuildDate |-> IF Len(rss_items[p]) # 0
                                             THEN rss_items[p][1].pubDate
                                             ELSE now]]
    /\ pc' = [pc EXCEPT ![p] = "done"]
    /\ Leave(p)
    /\ delivered' = [delivered EXCEPT ![p] = 0]
    /\ UNCHANGED <<now, calls, cachevars, error, first, resolves>>
    /\ UNCHANGED <<getvars, sigvars>>
    /\ UNCHANGED objects
    /\ survivors' = <<>>

\* one step of a running rss_view
FeedStep(p) ==
    \/ \E resp \in LocationResponses : GetLocation(p, resp)
    \/ \E resp \in SearchResponses : Search(p, resp)
    \/ EndOfResult(p)
    \/ SkipDuplicate(p)
    \/ LookupDate(p)
    \/ AppendItem(p)
    \/ PropagateDate(p)
    \/ Finish(p)

\* threads call Cache.get on the shared cache
(***************************************************************************)
(* get(url, params), statement by statement                                *)
(***************************************************************************)
\* what the upstream may answer to the request of operation o
Responses(o) ==
    IF o.name = "get_location" THEN LocationResponses
    ELSE IF o.name = "search" THEN SearchResponses
    ELSE ItemResponses

\* an operation calls get(url, params)
CallGet(p, o) ==
    /\ get_pc[p] \in {"idle", "returned", "raised"}
    /\ requests < MaxRequests
    /\ requests' = requests + 1
    /\ op' = [op EXCEPT ![p] = o.name]
    /\ url' = [url EXCEPT ![p] = UrlOf(o)]
    /\ timestamp' = [timestamp EXCEPT ![p] = <<>>]
    /\ request' = [request EXCEPT ![p] = NoRequest]
    /\ response' = [response EXCEPT ![p] = NoResponse]
    /\ outcome' = [outcome EXCEPT ![p] = NoOutcome]
    /\ get_pc' = [get_pc EXCEPT ![p] = "get_timestamp"]
    /\ UNCHANGED <<now, calls, pc, cachevars, feedvars>>
    /\ UNCHANGED <<histvars, sigvars>>

\* timestamp = get_timestamp()
ReadTimestamp(p) ==
    /\ get_pc[p] = "get_timestamp"
    /\ timestamp' = [timestamp EXCEPT ![p] = get_timestamp(now)]
    /\ get_pc' = [get_pc EXCEPT ![p] = "get_signature"]
    /\ UNCHANGED <<now, calls, pc, cachevars, feedvars>>
    /\ UNCHANGED <<op, url, request, response, outcome, requests>>
    /\ UNCHANGED <<histvars, sigvars>>

\* mutant: the signature is computed over a second reading of the clock
SendRequest_SecondReading(p) ==
    /\ get_pc[p] = "get_signature"
    /\ request' = [request EXCEPT ![p] =
                     [url |-> url[p], Timestamp |-> timestamp[p],
                      signed |-> Message(url[p], <<"g", "e", "t">>, get_timestamp(now))]]
    /\ get_pc' = [get_pc EXCEPT ![p] = "requests_get"]
    /\ UNCHANGED <<now, calls, pc, cachevars, feedvars>>
    /\ UNCHANGED <<op, url, timestamp, response, outcome, requests>>
    /\ UNCHANGED <<histvars, sigvars>>

\* signature = get_signature(url, 'get', timestamp);
\* headers = {..., 'Timestamp': timestamp, 'X-Signature': signature};
\* requests.get(url, params=params, headers=headers, cookies=cookies) is sent
SendRequest(p) ==
    /\ get_pc[p] = "get_signature"
    /\ request' = [request EXCEPT ![p] =
                     [url |-> url[p], Timestamp |-> timestamp[p],
                      signed |-> Message(url[p], <<"g", "e", "t">>, timestamp[p])]]
    /\ get_pc' = [get_pc EXCEPT ![p] = "requests_get"]
    /\ UNCHANGED <<now, calls, pc, cachevars, feedvars>>
    /\ UNCHANGED <<op, url, timestamp, response, outcome, requests>>
    /\ UNCHANGED <<histvars, sigvars>>

\* requests.get answers or raises; return r.json()
Receive(p, resp) ==
    /\ get_pc[p] = "requests_get"
    /\ response' = [response EXCEPT ![p] = resp]
    /\ outcome' = [outcome EXCEPT ![p] = get(resp)]
    /\ get_pc' = [get_pc EXCEPT ![p] = IF get(resp).raised THEN "raised" ELSE "returned"]
    /\ UNCHANGED <<now, calls, pc, cachevars, feedvars>>
    /\ UNCHANGED <<op, url, timestamp, request, requests>>
    /\ UNCHANGED <<histvars, sigvars>>

(***************************************************************************)
(* get_signature(url, method, timestamp) and test(), statement by          *)
(* statement                                                               *)
(***************************************************************************)
\* test(): url = '/api/v3/suggesters/search'
TestUrl ==
    <<"/", "a", "p", "i", "/", "v", "3", "/", "s", "u", "g", "g", "e", "s",
      "t", "e", "r", "s", "/", "s", "e", "a", "r", "c", "h">>

\* test(): timestamp = '1565827270558'
TestTimestamp ==
    <<"1", "5", "6", "5", "8", "2", "7", "2", "7", "0", "5", "5", "8">>

\* test(): method = 'get'
TestMethod == <<"g", "e", "t">>

\* test(): signature_good = '6iU/x0HyEqX2dzMTdv1QsTtBX4Z8tZTuHJmhzMXnxuU='
signature_good ==
    <<"6", "i", "U", "/", "x", "0", "H", "y", "E", "q", "X", "2", "d", "z",
      "M", "T", "d", "v", "1", "Q", "s", "T", "t", "B", "X", "4", "Z", "8",
      "t", "Z", "T", "u", "H", "J", "m", "h", "z", "M", "X", "n", "x", "u",
      "U", "=">>

\* the arguments get_signature is called with: the path of test(), the same
\* path behind the origin of the API and the url of search, the method in
\* either case, the timestamp of test() and a timestamp of get_timestamp
SignUrls == {TestUrl, ApiOrigin \o TestUrl,
             UrlOf([name |-> "search", item_id |-> <<>>])}
SignMethods == {TestMethod, Upper(TestMethod)}
SignTimestamps == {TestTimestamp, get_timestamp(expiration)}

\* a caller's get_signature(u, method, ts) begins
Sign(u, method, ts) ==
    /\ sig_pc = "idle"
    /\ sig_pc' = "message"
    /\ caller' = "get"
    /\ args' = [url |-> u, method |-> method, timestamp |-> ts]
    /\ printed' = <<>>
    /\ UNCHANGED <<msg, sig, signature, previous>>
    /\ UNCHANGED mainvars

\* test() begins and calls get_signature(url, method, timestamp) (line 26)
Test ==
    /\ sig_pc = "idle"
    /\ sig_pc' = "message"
    /\ caller' = "test"
    /\ args' = [url |-> TestUrl, method |-> TestMethod, timestamp |-> TestTimestamp]
    /\ printed' = <<>>
    /\ UNCHANGED <<msg, sig, signature, previous>>
    /\ UNCHANGED mainvars

\* lines 14-15: req and msg
BuildMessage ==
    /\ sig_pc = "message"
    /\ msg' = Message(args.url, args.method, args.timestamp)
    /\ sig_pc' = "hmac"
    /\ UNCHANGED <<caller, args, sig, signature, printed, previous>>
    /\ UNCHANGED mainvars

\* line 17: sig = hmac.new(KEY.encode('utf-8'), msg.encode('utf-8'),
\* hashlib.sha256).digest()
Digest ==
    /\ sig_pc = "hmac"
    /\ sig' = hmac_digest(encode(KEY), encode(msg))
    /\ sig_pc' = "b64encode"
    /\ UNCHANGED <<caller, args, msg, signature, printed, previous>>
    /\ UNCHANGED mainvars

\* line 18: return base64.b64encode(sig).decode('ascii')
Encode ==
    /\ sig_pc = "b64encode"
    /\ signature' = b64encode(sig)
    /\ sig_pc' = "returned"
    /\ UNCHANGED <<caller, args, msg, sig, printed, previous>>
    /\ UNCHANGED mainvars

\* the call is over: its locals are gone
EndOfCall ==
    /\ sig_pc' = "idle"
    /\ previous' = [args |-> args, signature |-> signature]
    /\ args' = NoArgs
    /\ msg' = <<>>
    /\ sig' = <<>>
    /\ signature' = <<>>
    /\ UNCHANGED caller
    /\ UNCHANGED mainvars

\* the caller has the signature
ReturnSignature ==
    /\ sig_pc = "returned"
    /\ caller = "get"
    /\ UNCHANGED printed
    /\ EndOfCall

\* test(), lines 27-32: the signature is compared with signature_good
Compare ==
    /\ sig_pc = "returned"
    /\ caller = "test"
    /\ printed' = IF signature = signature_good
                  THEN <<"pass">>
                  ELSE <<"signature doesn't match",
                         [label |-> "Expected:", value |-> signature_good],
                         [label |-> "Obtained:", value |-> signature]>>
    /\ EndOfCall

Next ==
    \/ Tick
    \/ \E p \in Threads, k \in Keys : Call(p, k)
    \/ \E p \in Threads : CacheStep(p)

Spec == Init /\ [][Next]_vars

\* every thread of the server keeps running: a Cache.get that can take a step
\* takes it, the updater's request is answered or fails, and a thread blocked
\* in lock.acquire() goes on once the lock is free and stays free
SpecLive == Spec /\ \A p \in Threads : WF_vars(CacheStep(p))

\* threads serve rss_view requests, which call Cache.get on the shared cache
NextFeed ==
    \/ Tick
    \/ \E p \in FeedThreads, n \in 0..MaxKeywords : Start(p, n)
    \/ \E p \in FeedThreads : FeedStep(p)
    \/ \E p \in FeedThreads : CacheStep(p)

SpecFeed == Init /\ [][NextFeed]_vars

\* the threads of the server issuing upstream calls
NextGet ==
    \/ Tick
    \/ \E p \in Threads, o \in Operations : CallGet(p, o)
    \/ \E p \in Threads : ReadTimestamp(p)
    \/ \E p \in Threads : SendRequest(p)
    \/ \E p \in Threads : \E resp \in Responses([name |-> op[p]]) : Receive(p, resp)

SpecGet == Init /\ [][NextGet]_vars

\* calls of get_signature, one after the other, and runs of test()
NextSign ==
    \/ \E u \in SignUrls, method \in SignMethods, ts \in SignTimestamps :
           Sign(u, method, ts)
    \/ Test
    \/ BuildMessage
    \/ Digest
    \/ Encode
    \/ ReturnSignature
    \/ Compare

SpecSign == Init /\ [][NextSign]_vars


(***************************************************************************)
(* Steps of Cache.get, as seen from outside                                *)
(***************************************************************************)
\* p's sweep runs in this step
Sweeps(p) == pc[p] = "clean_sweep" /\ pc'[p] = "get_lookup"
\* p's lookup runs in this step
LooksUp(p) == pc[p] = "get_lookup" /\ pc'[p] # "get_lookup"
\* p's lookup finds an entry and returns it in this step
ReturnsHit(p) == pc[p] = "get_lookup" /\ pc'[p] = "get_returned"
\* p invokes the updater in this step
InvokesUpdater(p) == pc[p] # "updater" /\ pc'[p] = "updater"
\* p's Cache.get returns in this step
Returns(p) == pc[p] # "get_returned" /\ pc'[p] = "get_returned"
\* p's updater raises in this step
UpdaterRaises(p) == pc[p] = "updater" /\ pc'[p] = "get_raised"

(***************************************************************************)
(* C1                                                                      *)
(***************************************************************************)
\* C1: while fewer than expiration seconds have passed since the insertion
\* timestamp of k's entry, no step removes or replaces the entry, no thread
\* invokes the updater for k, and every get(k) that returns returns the
\* stored value.
C1_WithinTtlLoadedOnce ==
    [][\A k \in Keys :
          (k \in DOMAIN dict /\ now' - EntryTimestamp(dict[k]) < expiration)
          => /\ k \in DOMAIN dict' /\ dict'[k] = dict[k]
             /\ \A p \in Threads :
                   /\ ~(InvokesUpdater(p) /\ key'[p] = k)
                   /\ (Returns(p) /\ key[p] = k)
                         => ret'[p] = EntryValue(dict[k])]_vars

\* a get(k) has returned the stored entry by a hit, after the clock moved on
\* from the insertion and within the expiration
C1_Witness ==
    \E p \in Threads :
        /\ pc[p] = "get_returned" /\ how[p] = "hit"
        /\ key[p] \in DOMAIN dict
        /\ ret[p] = EntryValue(dict[key[p]])
        /\ now > EntryTimestamp(dict[key[p]])
        /\ now - EntryTimestamp(dict[key[p]]) < expiration

(***************************************************************************)
(* C2                                                                      *)
(***************************************************************************)
\* C2 as stated: a get(k) called when expiration or more seconds have passed
\* since the insertion of k's entry (exactly expiration included) does not
\* return that entry by a hit: it invokes the updater and replaces it.
C2_ReloadsAtTtl ==
    [][\A p \in Threads :
          ReturnsHit(p)
          => called_at[p] - EntryTimestamp(dict[key[p]]) < expiration]_vars

\* C2 amended: a get(k) called when strictly more than expiration seconds
\* have passed since the insertion of k's entry deletes that entry in its
\* sweep, and the entry it returns was inserted by a later invocation of the
\* updater.
C2_ReloadsAfterTtl ==
    [][\A p \in Threads :
          /\ (Sweeps(p) /\ key[p] \in DOMAIN dict
              /\ called_at[p] - EntryTimestamp(dict[key[p]]) > expiration)
                => key[p] \notin DOMAIN dict'
          /\ Returns(p)
                => called_at[p] - EntryTimestamp(dict'[key[p]]) <= expiration]_vars

\* a get(k) called more than expiration seconds after an insertion of k has
\* swept k's entry and returned a freshly loaded one
C2_Witness ==
    \E p \in Threads :
        /\ pc[p] = "get_returned" /\ how[p] = "miss"
        /\ key[p] \in swept[p]
        /\ key[p] \in DOMAIN dict
        /\ EntryTimestamp(dict[key[p]]) > expiration

(***************************************************************************)
(* C3                                                                      *)
(***************************************************************************)
\* C3: when the updater raises, get leaves by the exception with nothing
\* returned, the dictionary is unchanged and holds no entry for the key, the
\* lock is free again, and the next lookup of that key invokes the updater.
C3_FailureNotCached ==
    [][\A p \in Threads :
          /\ UpdaterRaises(p)
                => /\ dict' = dict
                   /\ key[p] \notin DOMAIN dict'
                   /\ ret'[p] = NoValue
                   /\ lock'.owner = NoThread
          /\ (LooksUp(p) /\ key[p] \in failed)
                => InvokesUpdater(p) /\ dict' = dict]_vars

\* the updater runs again for a key whose previous load raised
C3_Witness ==
    \E p \in Threads :
        /\ pc[p] = "get_returned" /\ how[p] = "miss"
        /\ \E q \in Threads \ {p} : pc[q] = "get_raised" /\ key[q] = key[p]
        /\ key[p] \in DOMAIN dict
        /\ key[p] \notin failed

(***************************************************************************)
(* C4                                                                      *)
(***************************************************************************)
\* C4: at most one thread is inside the updater at any instant.
C4_OneUpdaterAtATime ==
    Cardinality({p \in Threads : pc[p] = "updater"}) <= 1

\* one thread is inside the updater while another waits for the lock with
\* the same key
C4_Witness ==
    \E p \in Threads, q \in Threads :
        /\ p # q
        /\ pc[p] = "updater"
        /\ pc[q] = "get_lookup"
        /\ key[q] = key[p]

(***************************************************************************)
(* C5                                                                      *)
(***************************************************************************)
\* C5: a thread inside Cache.get holds the lock from the start of its sweep
\* through its lookup and its updater invocation.
C5_LockHeldThroughGet ==
    \A p \in Threads :
        pc[p] \in {"clean_sweep", "get_lookup", "updater"} => lock.owner = p

(***************************************************************************)
(* C6                                                                      *)
(***************************************************************************)
\* C6: a lookup returns an existing entry only if the entry is live at the
\* moment of the lookup (its timestamp >= now - expiration).
C6_ReturnsOnlyLive ==
    [][\A p \in Threads :
          ReturnsHit(p)
          => EntryTimestamp(dict[key[p]]) >= now - expiration]_vars

(***************************************************************************)
(* C7                                                                      *)
(***************************************************************************)
\* C7: every get starts with a sweep; the sweep compares against the clock
\* read under the lock minus the expiration, and after it no entry of any
\* key with a timestamp below that remains, while every other entry stays.
C7_SweepRemovesAllExpired ==
    [][\A p \in Threads :
          /\ (pc[p] \in {"idle", "get_returned", "get_raised"} /\ pc'[p] # pc[p])
                => pc'[p] = "clean"
          /\ (pc[p] = "clean" /\ pc'[p] # pc[p])
                => /\ pc'[p] = "clean_sweep"
                   /\ max_timestamp'[p] = now - expiration
          /\ Sweeps(p)
                => /\ \A k \in DOMAIN dict' :
                         EntryTimestamp(dict'[k]) >= max_timestamp[p]
                   /\ \A k \in DOMAIN dict :
                         EntryTimestamp(dict[k]) < max_timestamp[p]
                            => k \notin DOMAIN dict']_vars

\* a sweep has deleted the entry of a key other than the requested one
C7_Witness ==
    \E p \in Threads :
        /\ pc[p] = "get_lookup"
        /\ swept[p] \ {key[p]} # {}
        /\ swept[p] \cap DOMAIN dict = {}

(***************************************************************************)
(* C8                                                                      *)
(***************************************************************************)
\* C8: a step changes or removes the entry of a key k2 only if it is a sweep
\* and k2's own timestamp is below that sweep's bound; a sweep keeps k2's
\* entry exactly when k2's own timestamp is not below the bound, whatever
\* the other entries and the requested key are.
C8_KeysExpireIndependently ==
    [][\A k2 \in DOMAIN dict :
          /\ (k2 \in DOMAIN dict' /\ dict'[k2] = dict[k2])
             \/ \E p \in Threads :
                   Sweeps(p) /\ EntryTimestamp(dict[k2]) < max_timestamp[p]
          /\ \A p \in Threads :
                Sweeps(p)
                => (k2 \in DOMAIN dict'
                      <=> EntryTimestamp(dict[k2]) >= max_timestamp[p])]_vars

\* a sweep has deleted one key's entry and kept the older-than-the-sweep
\* entry of another key
C8_Witness ==
    \E p \in Threads, k2 \in Keys :
        /\ pc[p] = "get_lookup"
        /\ swept[p] # {}
        /\ k2 \in DOMAIN dict
        /\ k2 \notin swept[p]
        /\ EntryTimestamp(dict[k2]) < max_timestamp[p] + expiration

(***************************************************************************)
(* C9                                                                      *)
(***************************************************************************)
\* the guids of a sequence of feed items
Guids(items) == {items[i].guid : i \in DOMAIN items}

\* items holds each id once, each item is the first object delivered with
\* its id, and the items stand in the order their ids were first delivered
Deduplicated(items, f) ==
    /\ \A i \in DOMAIN items, j \in DOMAIN items :
          i < j => /\ items[i].guid # items[j].guid
                   /\ items[i].title < items[j].title
    /\ \A i \in DOMAIN items :
          /\ items[i].guid \in DOMAIN f
          /\ items[i].title = f[items[i].guid]

\* C9: the items collected so far and the items of a returned feed hold each
\* item id at most once, the item kept for an id is the first object any
\* search of this rss_view delivered with that id, and the items stand in
\* the order of first occurrence.
C9_FirstOccurrenceWins ==
    \A p \in FeedThreads :
        /\ Deduplicated(rss_items[p], first[p])
        /\ feed[p].returned => Deduplicated(feed[p].items, first[p])

\* a feed of two items was returned whose second item is the third object
\* delivered: the second object repeated the id of the first and was dropped
C9_Witness ==
    \E p \in FeedThreads :
        /\ feed[p].returned
        /\ Len(feed[p].items) = 2
        /\ feed[p].items[1].title = 1
        /\ feed[p].items[2].title = 3

(***************************************************************************)
(* C10                                                                     *)
(***************************************************************************)
\* C10: when get_location, a search or the date load of an item raises,
\* rss_view ends by that exception without a feed; after it the request does
\* nothing more (no retry: the thread's next step is a new request); a feed
\* that is returned holds every item id the searches delivered.
C10_NoPartialResult ==
    [][\A p \in FeedThreads :
          /\ error'[p] # "none"
                => pc'[p] = "raised" /\ ~feed'[p].returned
          /\ (pc[p] = "get_raised" /\ pc'[p] # pc[p])
                => pc'[p] = "raised" /\ error'[p] = "date"
          /\ (pc[p] = "raised" /\ pc'[p] # pc[p])
                => pc'[p] = "get_location" /\ resolves' = resolves + 1
          /\ feed'[p].returned
                => /\ error'[p] = "none"
                   /\ Guids(feed'[p].items) = DOMAIN first'[p]]_vars

\* the first rss_view loaded and stored the date of one item, then the date
\* load of a later item raised and rss_view ended without a feed
C10_Witness ==
    \E p \in FeedThreads :
        /\ pc[p] = "raised"
        /\ error[p] = "date"
        /\ resolves = 1
        /\ DOMAIN dict # {}
        /\ ~feed[p].returned

(***************************************************************************)
(* Upstream calls                                                          *)
(***************************************************************************)
\* a network failure, a non-2xx HTTP status or a malformed JSON body
UpstreamFailure(resp) ==
    \/ resp.kind = "neterr"
    \/ resp.kind = "malformed"
    \/ resp.status \notin 200..299

\* C11: every upstream call whose request meets a network failure, a non-2xx
\* HTTP status or a malformed JSON body ends in an error and never in a
\* normally returned parsed value.
C11_FailureSurfacesAsError ==
    \A p \in Threads :
        get_pc[p] \in {"returned", "raised"} /\ UpstreamFailure(response[p])
            => outcome[p].raised

\* t occurs in s
Contains(s, t) == \E i \in 1..(Len(s) - Len(t) + 1) : SubSeq(s, i, i + Len(t) - 1) = t

RECURSIVE UpTo(_, _)
\* the characters of s before the first c
UpTo(s, c) == IF s = <<>> \/ Head(s) = c THEN <<>> ELSE <<Head(s)>> \o UpTo(Tail(s), c)

\* the part of the absolute url u after "scheme://"
AfterScheme(u) == From(u, Len(UpTo(u, ":")) + 3)

\* the host of the absolute url u, and u without scheme and host
HostOf(u) == UpTo(AfterScheme(u), "/")
PathOf(u) == From(AfterScheme(u), Len(HostOf(u)))

\* C12: the message signed for every request get sends is
\* UPPER(method) | path | timestamp | with path the request URL without
\* scheme and host, and it contains neither a scheme nor the host.
C12_SignedMessageIsPath ==
    \A p \in Threads :
        request[p] # NoRequest
            => /\ request[p].signed =
                      <<"G", "E", "T", "|">> \o PathOf(request[p].url) \o <<"|">>
                      \o request[p].Timestamp \o <<"|">>
               /\ ~Contains(request[p].signed, <<":", "/", "/">>)
               /\ ~Contains(request[p].signed, HostOf(request[p].url))

RECURSIVE Split(_, _)
\* the fields of s between the separators c
Split(s, c) ==
    IF ~Contains(s, <<c>>) THEN <<s>>
    ELSE <<UpTo(s, c)>> \o Split(From(s, Len(UpTo(s, c)) + 1), c)

\* C13: the timestamp of every request get sends is one reading of the clock
\* taken by that get call, in milliseconds; the Timestamp header and the
\* timestamp field of the message signed into X-Signature both carry it, also
\* while another thread's request with another timestamp is in flight.
C13_OneTimestampPerRequest ==
    \A p \in Threads :
        request[p] # NoRequest
            => /\ request[p].Timestamp = timestamp[p]
               /\ Split(request[p].signed, "|")[3] = request[p].Timestamp
               /\ \E t \in Instants : t <= now /\ request[p].Timestamp = get_timestamp(t)

\* two requests are in flight at once, sent with different timestamps
C13_Witness ==
    /\ \A p \in Threads : get_pc[p] = "requests_get"
    /\ \E p, q \in Threads : request[p].Timestamp # request[q].Timestamp

(***************************************************************************)
(* The feed                                                                *)
(***************************************************************************)
\* C15: when the loop over the keywords is over, rss_view returns the feed
\* (no exception) with the items collected; its build date is the publish
\* date of the first item, and the current time when there is no item.
C15_BuildDateOfFirstItem ==
    [][\A p \in FeedThreads :
          (pc[p] = "loop" /\ keywords_left[p] = 0 /\ pc'[p] # pc[p])
              => /\ pc'[p] = "done"
                 /\ error'[p] = "none"
                 /\ feed'[p].returned
                 /\ feed'[p].items = rss_items[p]
                 /\ feed'[p].lastBuildDate = IF feed'[p].items = <<>> THEN now
                                             ELSE feed'[p].items[1].pubDate]_vars

\* a feed of two items with different publish dates is returned, at a time
\* that is neither of them
C15_Witness ==
    \E p \in FeedThreads :
        /\ pc[p] = "done"
        /\ feed[p].returned
        /\ Len(feed[p].items) = 2
        /\ feed[p].items[1].pubDate # feed[p].items[2].pubDate
        /\ feed[p].lastBuildDate = feed[p].items[1].pubDate
        /\ now # feed[p].lastBuildDate

\* C16: the build date of every non-empty feed returned is the most recent
\* publish date among its items: no item is dated later than the build date.
C16_BuildDateIsMostRecent ==
    \A p \in FeedThreads :
        feed[p].returned /\ feed[p].items # <<>>
            => /\ \A i \in DOMAIN feed[p].items :
                      feed[p].items[i].pubDate <= feed[p].lastBuildDate
               /\ \E i \in DOMAIN feed[p].items :
                      feed[p].items[i].pubDate = feed[p].lastBuildDate

(***************************************************************************)
(* The upstream calls of one rss_view                                      *)
(***************************************************************************)
\* C17: an rss_view that returns a feed has called get_location once, before
\* any search, and search once per element of query['keywords'], each time
\* with the whole keywords list and the same location, radius and prices;
\* with no keyword it has issued no search and its feed is empty.
C17_OneSearchPerKeyword ==
    [][\A p \in FeedThreads :
          /\ lookups'[p] <= 1
          /\ searches'[p] # searches[p] /\ searches'[p] # <<>>
                => /\ lookups[p] = 1
                   /\ Len(searches'[p]) = Len(searches[p]) + 1
          /\ (pc[p] = "loop" /\ pc'[p] = "done")
                => /\ lookups[p] = 1
                   /\ Len(searches[p]) = Len(query[p].keywords)
                   /\ \A i \in DOMAIN searches[p] :
                          searches[p][i] = SearchParams(query[p].keywords, location[p],
                                                        query[p].location_radius,
                                                        query[p].min_price,
                                                        query[p].max_price)
                   /\ query[p].keywords = <<>>
                          => searches[p] = <<>> /\ feed'[p].items = <<>>]_vars

\* an rss_view with two keywords is about to return a feed of two items: it
\* has called get_location once and search twice
C17_Witness ==
    \E p \in FeedThreads :
        /\ pc[p] = "loop"
        /\ keywords_left[p] = 0
        /\ Len(query[p].keywords) = 2
        /\ lookups[p] = 1
        /\ Len(searches[p]) = 2
        /\ Len(rss_items[p]) = 2

(***************************************************************************)
(* The lock                                                                *)
(***************************************************************************)
\* thread p is inside Cache.get
InGet(p) == pc[p] \in {"clean", "clean_sweep", "get_lookup", "updater"}

\* C18: the lock is held only by a thread inside Cache.get, so it is free
\* whenever no Cache.get is in progress, also after a get whose loader
\* raised; and no thread stays inside Cache.get for ever: again and again it
\* is outside, its last Cache.get having returned or raised.
C18_GetTerminates ==
    /\ [](lock.owner # NoThread => InGet(lock.owner))
    /\ \A p \in Threads : []<>(pc[p] \in {"idle", "get_returned", "get_raised"})

\* the loader of one thread has raised and the lock is free, while the other
\* thread is in Cache.get before an acquisition of the lock
C18_Witness ==
    \E p, q \in Threads :
        /\ pc[p] = "get_raised"
        /\ pc[q] \in {"clean", "get_lookup"}
        /\ lock.owner = NoThread

(***************************************************************************)
(* The date lookups of one rss_view                                        *)
(***************************************************************************)
\* the elements of the sequence q
Range(q) == {q[i] : i \in DOMAIN q}

\* C19: within one rss_view, item_date_cache.get is called for an item id
\* only at its first occurrence, never for an id looked up before, so that a
\* returned feed has looked up each delivered id once, in the order of first
\* occurrence; the updater is invoked only by the lookup of the id just taken
\* up, at most once, and never for an id that has a cache entry.
C19_OneLookupPerId ==
    [][\A p \in FeedThreads :
          /\ gets'[p] # gets[p] /\ gets'[p] # <<>>
                => /\ gets'[p] = Append(gets[p], Head(result[p]).id)
                   /\ Head(result[p]).id \notin Range(gets[p])
          /\ (pc[p] = "items" /\ result[p] # <<>> /\ Head(result[p]).id \in Range(gets[p]))
                => pc'[p] = "items" /\ gets'[p] = gets[p]
          /\ (pc[p] = "loop" /\ pc'[p] = "done")
                => /\ Range(gets[p]) = DOMAIN first[p]
                   /\ \A i, j \in DOMAIN gets[p] :
                          i < j => first[p][gets[p][i]] < first[p][gets[p][j]]
          /\ InvokesUpdater(p)
                => /\ key[p] = gets[p][Len(gets[p])]
                   /\ key[p] \notin Range(SubSeq(gets[p], 1, Len(gets[p]) - 1))
                   /\ key[p] \notin DOMAIN dict
                   /\ how[p] = "none"
          /\ (LooksUp(p) /\ key[p] \in DOMAIN dict)
                => ReturnsHit(p)]_vars

\* the searches of an rss_view delivered three objects with two ids, and the
\* rss_view, about to return, has looked up two dates
C19_Witness ==
    \E p \in FeedThreads :
        /\ pc[p] = "loop"
        /\ keywords_left[p] = 0
        /\ delivered[p] = 3
        /\ Len(gets[p]) = 2

(***************************************************************************)
(* The cache after a failed rss_view                                       *)
(***************************************************************************)
\* C20: when the date load of an item fails and ends the rss_view, the cache
\* entries of the items it had processed stay as they are (the failing load
\* and the exception leaving rss_view change nothing in the dict); during the
\* following rss_view each of them is still in the dict unchanged until a
\* sweep finds it expired, its lookup returns its value, and the updater is
\* not invoked for its id.
C20_NoRollback ==
    [][\A p \in FeedThreads :
          /\ UpdaterRaises(p) => dict' = dict
          /\ (pc[p] = "get_raised" /\ pc'[p] = "raised")
                => /\ dict' = dict
                   /\ survivors' = [k \in item_ids[p] \cap DOMAIN dict |-> dict[k]]
          /\ \A k \in DOMAIN survivors' :
                k \in DOMAIN dict' /\ dict'[k] = survivors'[k]
          /\ \A k \in DOMAIN survivors \ DOMAIN survivors' :
                \/ pc'[p] \in {"done", "raised"}
                \/ Sweeps(p) /\ now - EntryTimestamp(survivors[k]) > expiration
          /\ InvokesUpdater(p) => key[p] \notin DOMAIN survivors
          /\ (LooksUp(p) /\ key[p] \in DOMAIN survivors)
                => ReturnsHit(p) /\ ret'[p] = EntryValue(survivors[key[p]])]_vars

\* the first rss_view stored the date of an item and was ended by the failed
\* date load of another; the following rss_view has got the stored date from
\* the cache, within the expiration, and appended the item
C20_Witness ==
    \E p \in FeedThreads :
        /\ resolves = 2
        /\ survivors # <<>>
        /\ \E i \in DOMAIN rss_items[p] :
              /\ rss_items[p][i].guid \in DOMAIN survivors
              /\ rss_items[p][i].pubDate = EntryValue(survivors[rss_items[p][i].guid])
              /\ now - EntryTimestamp(survivors[rss_items[p][i].guid]) <= expiration

(***************************************************************************)
(* The signature                                                           *)
(***************************************************************************)
\* C14: get_signature is base64(HMAC-SHA256(KEY, msg)) of the message
\* UPPER(method)|path|timestamp| and a function of its arguments: the message
\* is the upper-cased method, the url without the origin of the API and the
\* timestamp, each followed by "|"; for method "get", path
\* "/api/v3/suggesters/search" and timestamp "1565827270558" the value
\* returned is signature_good, so that test() prints nothing but "pass"; and a
\* call with the arguments of the call before it returns the same signature
C14_SignatureOfKnownVector ==
    /\ sig_pc \in {"hmac", "b64encode", "returned"} =>
           msg = Upper(args.method) \o <<"|">>
                 \o (IF StartsWith(args.url, ApiOrigin)
                     THEN From(args.url, Len(ApiOrigin))
                     ELSE args.url)
                 \o <<"|">> \o args.timestamp \o <<"|">>
    /\ sig_pc = "returned" =>
           /\ Len(sig) = 32
           /\ Len(signature) = 44
           /\ args.method = TestMethod /\ args.url = TestUrl
              /\ args.timestamp = TestTimestamp => signature = signature_good
           /\ previous.args = args => signature = previous.signature
    /\ printed # <<>> => printed = <<"pass">>

\* test() has the signature of its vector, and the call before it signed the
\* same arguments
C14_Witness ==
    /\ sig_pc = "returned"
    /\ caller = "test"
    /\ previous.args = args
    /\ signature = signature_good

=============================================================================
